---- MODULE Spec2Model ----
(* Referential behaviour of the portfolio data model (portfolio/models.py)   *)
(* as exposed through the admin registrations (portfolio/admin.py): every    *)
(* registered model can be added, changed and deleted.  Rows are identified  *)
(* by their auto-assigned primary key; foreign keys carry an on_delete       *)
(* policy that the delete collector applies before any row is removed.       *)
EXTENDS Integers, FiniteSets, Sequences, TLC

(* ---------------------------------------------------------------- bounds *)
MaxPortfolio   == 2
MaxAsset       == 2
MaxSharePrice  == 2
MaxInvestment  == 2
MaxTransaction == 2
MaxDate        == 1
MaxPrice       == 2

PortfolioIds   == 1..MaxPortfolio
AssetIds       == 1..MaxAsset
SharePriceIds  == 1..MaxSharePrice
InvestmentIds  == 1..MaxInvestment
TransactionIds == 1..MaxTransaction
Dates          == 1..MaxDate
Prices         == 1..MaxPrice

(* ------------------------------------------------- declarations (schema) *)
\* class Asset and its multi-table specialisations
AssetKinds == {"Asset", "Fund", "Bond", "Stock"}

\* holders of a ManyToManyField to Fund
FundHolderKinds == {"Bond", "Stock"}

\* the through rows of Bond.funds / Stock.funds cascade from both ends
Funds_through_on_delete == "CASCADE"

SharePrice_asset_on_delete_DO_NOTHING == "DO_NOTHING"
SharePrice_asset_on_delete == "CASCADE"

Investment_portfolio_on_delete_CASCADE == "CASCADE"
Investment_portfolio_on_delete == "PROTECT"

Investment_portfolio_default == 0

Investment_asset_on_delete_DO_NOTHING == "DO_NOTHING"
Investment_asset_on_delete == "PROTECT"

Transaction_investment_on_delete_DO_NOTHING == "DO_NOTHING"
Transaction_investment_on_delete == "CASCADE"

Transaction_share_price_on_delete_CASCADE == "CASCADE"
Transaction_share_price_on_delete == "PROTECT"

(* ----------------------------------------------------------------- state *)
VARIABLES
    portfolios,     \* set of existing Portfolio ids
    assets,         \* existing Asset id -> kind
    funds,          \* through rows <<holder asset id, fund asset id>>
    sharePrices,    \* existing SharePrice id -> [asset, date, price]
    investments,    \* existing Investment id -> [portfolio, asset]
    transactions,   \* existing Transaction id -> [investment, share_price]
    nextId,         \* per table: last primary key handed out
    op              \* the last operation requested and its outcome

store == <<portfolios, assets, funds, sharePrices, investments, transactions>>
vars  == <<portfolios, assets, funds, sharePrices, investments, transactions, nextId, op>>

Tables == {"Portfolio", "Asset", "SharePrice", "Investment", "Transaction"}

Remove(f, S) == [x \in (DOMAIN f) \ S |-> f[x]]
Put(f, k, v) == [x \in (DOMAIN f) \cup {k} |-> IF x = k THEN v ELSE f[x]]

(* ------------------------------------------------ foreign key constraint *)
\* a ForeignKey column carries a database constraint: the referenced row
\* must exist when the referencing row is written
ForeignKeyUnchecked(target, table) == TRUE
ForeignKeyOk(target, table) == target \in table

(* ------------------------------------------------------ delete collector *)
Nothing == [p |-> {}, a |-> {}, s |-> {}, i |-> {}, t |-> {}]

\* rows referencing a collected row through a field with the given policy
RefSharePrices(c, policy) ==
    IF SharePrice_asset_on_delete = policy
    THEN {x \in DOMAIN sharePrices : sharePrices[x].asset \in c.a} ELSE {}

RefInvestments(c, policy) ==
    (IF Investment_portfolio_on_delete = policy
     THEN {x \in DOMAIN investments : investments[x].portfolio \in c.p} ELSE {})
    \cup
    (IF Investment_asset_on_delete = policy
     THEN {x \in DOMAIN investments : investments[x].asset \in c.a} ELSE {})

RefTransactions(c, policy) ==
    (IF Transaction_investment_on_delete = policy
     THEN {x \in DOMAIN transactions : transactions[x].investment \in c.i} ELSE {})
    \cup
    (IF Transaction_share_price_on_delete = policy
     THEN {x \in DOMAIN transactions : transactions[x].share_price \in c.s} ELSE {})

\* one round of following CASCADE relations
CascadeStep(c) ==
    [p |-> c.p,
     a |-> c.a,
     s |-> c.s \cup RefSharePrices(c, "CASCADE"),
     i |-> c.i \cup RefInvestments(c, "CASCADE"),
     t |-> c.t \cup RefTransactions(c, "CASCADE")]

RECURSIVE Collect(_)
Collect(c) == IF CascadeStep(c) = c THEN c ELSE Collect(CascadeStep(c))

\* a PROTECT relation with at least one referencing row aborts the collection
Protected(c) ==
    \/ RefSharePrices(c, "PROTECT") # {}
    \/ RefInvestments(c, "PROTECT") # {}
    \/ RefTransactions(c, "PROTECT") # {}

\* rows are removed only after the whole collection went through
ToDeleteEager(c) == c
ToDelete(c) == IF Protected(c) THEN Nothing ELSE c

Outcome(c) == IF Protected(c) THEN "rejected" ELSE "ok"

\* delete() reports how many rows of each table it removed
Deleted(d) ==
    [a |-> Cardinality(d.a), s |-> Cardinality(d.s), t |-> Cardinality(d.t)]

DeleteRows(name, id, root) ==
    LET c == Collect(root)
        d == ToDelete(c)
    IN /\ portfolios'   = portfolios \ d.p
       /\ assets'       = Remove(assets, d.a)
       /\ funds'        = IF Funds_through_on_delete = "CASCADE"
                          THEN {l \in funds : l[1] \notin d.a /\ l[2] \notin d.a}
                          ELSE funds
       /\ sharePrices'  = Remove(sharePrices, d.s)
       /\ investments'  = Remove(investments, d.i)
       /\ transactions' = Remove(transactions, d.t)
       /\ op' = [name |-> name, id |-> id, result |-> Outcome(c), deleted |-> Deleted(d)]
       /\ UNCHANGED nextId

(* ------------------------------------------------------------------ init *)
\* The store starts empty.  Primary keys are never handed out twice, so rows
\* created and deleted earlier show only in the counters: either no Portfolio,
\* Investment and Transaction key is left but the last one (the Asset and
\* SharePrice tables can still grow to their bounds), or no Asset and
\* SharePrice key is left but the last one (the other tables can still grow).
AssetsGrow ==
    [tb \in Tables |-> CASE tb = "Portfolio"   -> MaxPortfolio - 1
                        [] tb = "Investment"  -> MaxInvestment - 1
                        [] tb = "Transaction" -> MaxTransaction - 1
                        [] OTHER -> 0]
LedgerGrows ==
    [tb \in Tables |-> CASE tb = "Asset"      -> MaxAsset - 1
                        [] tb = "SharePrice" -> MaxSharePrice - 1
                        [] OTHER -> 0]

Init ==
    /\ portfolios = {}
    /\ assets = << >>
    /\ funds = {}
    /\ sharePrices = << >>
    /\ investments = << >>
    /\ transactions = << >>
    /\ nextId \in {AssetsGrow, LedgerGrows}
    /\ op = [name |-> "none", id |-> 0, result |-> "ok"]

(* ------------------------------------------------------------- add views *)
Done(name, id, result) == [name |-> name, id |-> id, result |-> result]

\* the implicit AutoField primary key: the next unused number of the table
NewIdFixed(tb) == 1
NewId(tb) == nextId[tb] + 1

Bump(tb) == [nextId EXCEPT ![tb] = @ + 1]

CreatePortfolio ==
    /\ nextId["Portfolio"] < MaxPortfolio
    /\ LET id == NewId("Portfolio")
       IN /\ portfolios' = portfolios \cup {id}
          /\ nextId' = Bump("Portfolio")
          /\ op' = Done("CreatePortfolio", id, "ok")
    /\ UNCHANGED <<assets, funds, sharePrices, investments, transactions>>

CreateAsset ==
    /\ nextId["Asset"] < MaxAsset
    /\ \E kind \in AssetKinds :
         LET id == NewId("Asset")
         IN /\ assets' = Put(assets, id, kind)
            /\ nextId' = Bump("Asset")
            /\ op' = Done("CreateAsset", id, "ok")
    /\ UNCHANGED <<portfolios, funds, sharePrices, investments, transactions>>

\* Bond.funds.add(fund) / Stock.funds.add(fund)
AddFund ==
    /\ \E h \in DOMAIN assets, f \in DOMAIN assets :
         /\ assets[h] \in FundHolderKinds
         /\ assets[f] = "Fund"
         /\ <<h, f>> \notin funds
         /\ funds' = funds \cup {<<h, f>>}
         /\ op' = Done("AddFund", h, "ok")
    /\ UNCHANGED <<portfolios, assets, sharePrices, investments, transactions, nextId>>

CreateSharePrice ==
    /\ nextId["SharePrice"] < MaxSharePrice
    /\ \E a \in AssetIds, d \in Dates, pr \in Prices :
         LET id == NewId("SharePrice")
         IN IF ForeignKeyOk(a, DOMAIN assets)
            THEN /\ sharePrices' = Put(sharePrices, id, [asset |-> a, date |-> d, price |-> pr])
                 /\ nextId' = Bump("SharePrice")
                 /\ op' = Done("CreateSharePrice", id, "ok")
            ELSE /\ UNCHANGED <<sharePrices, nextId>>
                 /\ op' = Done("CreateSharePrice", 0, "rejected")
    /\ UNCHANGED <<portfolios, assets, funds, investments, transactions>>

\* Investment(portfolio=p, asset=a); the portfolio falls back to the field's
\* default when the caller leaves it out
CreateInvestment ==
    /\ nextId["Investment"] < MaxInvestment
    /\ \E omitted \in BOOLEAN, pArg \in PortfolioIds, a \in AssetIds :
         LET id == NewId("Investment")
             p  == IF omitted THEN Investment_portfolio_default ELSE pArg
             done(i, r) == [name |-> "CreateInvestment", id |-> i, result |-> r,
                            portfolio |-> p, asset |-> a, omitted |-> omitted]
         IN IF ForeignKeyOk(p, portfolios) /\ ForeignKeyOk(a, DOMAIN assets)
            THEN /\ investments' = Put(investments, id, [portfolio |-> p, asset |-> a])
                 /\ nextId' = Bump("Investment")
                 /\ op' = done(id, "ok")
            ELSE /\ UNCHANGED <<investments, nextId>>
                 /\ op' = done(0, "rejected")
    /\ UNCHANGED <<portfolios, assets, funds, sharePrices, transactions>>

\* Transaction(investment=i, share_price=s, ...): nothing relates the asset of
\* the share price to the asset of the investment
CreateTransaction ==
    /\ nextId["Transaction"] < MaxTransaction
    /\ \E i \in InvestmentIds, s \in SharePriceIds :
         LET id == NewId("Transaction")
         IN IF ForeignKeyOk(i, DOMAIN investments) /\ ForeignKeyOk(s, DOMAIN sharePrices)
            THEN /\ transactions' = Put(transactions, id, [investment |-> i, share_price |-> s])
                 /\ nextId' = Bump("Transaction")
                 /\ op' = Done("CreateTransaction", id, "ok")
            ELSE /\ UNCHANGED <<transactions, nextId>>
                 /\ op' = Done("CreateTransaction", 0, "rejected")
    /\ UNCHANGED <<portfolios, assets, funds, sharePrices, investments>>

(* ---------------------------------------------------------- change views *)
UpdateSharePrice ==
    /\ \E s \in DOMAIN sharePrices, a \in AssetIds, d \in Dates, pr \in Prices :
         IF ForeignKeyOk(a, DOMAIN assets)
         THEN /\ sharePrices' = Put(sharePrices, s, [asset |-> a, date |-> d, price |-> pr])
              /\ op' = Done("UpdateSharePrice", s, "ok")
         ELSE /\ UNCHANGED sharePrices
              /\ op' = Done("UpdateSharePrice", s, "rejected")
    /\ UNCHANGED <<portfolios, assets, funds, investments, transactions, nextId>>

UpdateInvestment ==
    /\ \E i \in DOMAIN investments, p \in PortfolioIds, a \in AssetIds :
         IF ForeignKeyOk(p, portfolios) /\ ForeignKeyOk(a, DOMAIN assets)
         THEN /\ investments' = Put(investments, i, [portfolio |-> p, asset |-> a])
              /\ op' = Done("UpdateInvestment", i, "ok")
         ELSE /\ UNCHANGED investments
              /\ op' = Done("UpdateInvestment", i, "rejected")
    /\ UNCHANGED <<portfolios, assets, funds, sharePrices, transactions, nextId>>

UpdateTransaction ==
    /\ \E t \in DOMAIN transactions, i \in InvestmentIds, s \in SharePriceIds :
         IF ForeignKeyOk(i, DOMAIN investments) /\ ForeignKeyOk(s, DOMAIN sharePrices)
         THEN /\ transactions' = Put(transactions, t, [investment |-> i, share_price |-> s])
              /\ op' = Done("UpdateTransaction", t, "ok")
         ELSE /\ UNCHANGED transactions
              /\ op' = Done("UpdateTransaction", t, "rejected")
    /\ UNCHANGED <<portfolios, assets, funds, sharePrices, investments, nextId>>

(* ---------------------------------------------------------- delete views *)
DeletePortfolio ==
    \E p \in portfolios :
        DeleteRows("DeletePortfolio", p, [Nothing EXCEPT !.p = {p}])

\* the same for a plain Asset and for a Fund, Bond or Stock: the child row
\* goes with its parent row
DeleteAsset ==
    \E a \in DOMAIN assets :
        DeleteRows("DeleteAsset", a, [Nothing EXCEPT !.a = {a}])

DeleteSharePrice ==
    \E s \in DOMAIN sharePrices :
        DeleteRows("DeleteSharePrice", s, [Nothing EXCEPT !.s = {s}])

DeleteInvestment ==
    \E i \in DOMAIN investments :
        DeleteRows("DeleteInvestment", i, [Nothing EXCEPT !.i = {i}])

DeleteTransaction ==
    \E t \in DOMAIN transactions :
        DeleteRows("DeleteTransaction", t, [Nothing EXCEPT !.t = {t}])

Next ==
    \/ CreatePortfolio
    \/ CreateAsset
    \/ AddFund
    \/ CreateSharePrice
    \/ CreateInvestment
    \/ CreateTransaction
    \/ UpdateSharePrice
    \/ UpdateInvestment
    \/ UpdateTransaction
    \/ DeletePortfolio
    \/ DeleteAsset
    \/ DeleteSharePrice
    \/ DeleteInvestment
    \/ DeleteTransaction

Spec == Init /\ [][Next]_vars

(* ================================================================ claims *)
InvestmentsOfAsset(a)     == {i \in DOMAIN investments : investments[i].asset = a}
InvestmentsOfPortfolio(p) == {i \in DOMAIN investments : investments[i].portfolio = p}
SharePricesOfAsset(a)     == {s \in DOMAIN sharePrices : sharePrices[s].asset = a}
TransactionsOfInvestment(i) == {t \in DOMAIN transactions : transactions[t].investment = i}
TransactionsOfSharePrice(s) == {t \in DOMAIN transactions : transactions[t].share_price = s}

\* C1: delete(asset) is rejected exactly when an Investment references the
\* asset; when none does it succeeds and the asset is gone afterwards.
C1_DeleteAssetIffNoInvestment ==
    [][op'.name = "DeleteAsset" =>
         /\ (op'.result = "rejected") <=> (InvestmentsOfAsset(op'.id) # {})
         /\ (op'.result = "ok") => (op'.id \notin DOMAIN assets')]_vars

\* C8: every Transaction's share price belongs to the asset of the
\* Transaction's investment.
C8_SharePriceOfSameAsset ==
    \A t \in DOMAIN transactions :
        sharePrices[transactions[t].share_price].asset
            = investments[transactions[t].investment].asset

\* C1 (supporting): in the states where every Transaction's share price
\* belongs to the asset of its investment, delete(asset) is rejected exactly
\* when an Investment references the asset.
C1_HoldsWhereC8Holds ==
    [][(op'.name = "DeleteAsset" /\ C8_SharePriceOfSameAsset) =>
         ((op'.result = "rejected") <=> (InvestmentsOfAsset(op'.id) # {}))]_vars

\* C2: delete(investment) always succeeds, removes the investment and exactly
\* its own Transaction rows, and leaves every other row of every table alone.
C2_DeleteInvestmentCascade ==
    [][op'.name = "DeleteInvestment" =>
         /\ op'.result = "ok"
         /\ investments' = Remove(investments, {op'.id})
         /\ transactions' = Remove(transactions, TransactionsOfInvestment(op'.id))
         /\ \A t \in DOMAIN transactions' : transactions'[t].investment # op'.id
         /\ UNCHANGED <<portfolios, assets, funds, sharePrices>>]_vars

\* an Investment was deleted together with a Transaction of its own while
\* a Transaction of another Investment stayed
C2_Witness ==
    /\ op.name = "DeleteInvestment"
    /\ op.result = "ok"
    /\ op.deleted.t >= 1
    /\ transactions # << >>

\* C3: a rejected delete of a Portfolio, an Asset or a SharePrice changes no
\* row of any table; in particular the SharePrice rows of the asset stay.
C3_RejectedDeleteChangesNothing ==
    [][(/\ op'.name \in {"DeletePortfolio", "DeleteAsset", "DeleteSharePrice"}
        /\ op'.result = "rejected")
       => UNCHANGED store]_vars

\* delete(asset) was rejected for an asset that has SharePrice rows
C3_Witness ==
    /\ op.name = "DeleteAsset"
    /\ op.result = "rejected"
    /\ SharePricesOfAsset(op.id) # {}

\* C4: delete(portfolio) is rejected exactly while an Investment references
\* the portfolio and succeeds otherwise; either way no Investment and no
\* Transaction is removed.
C4_DeletePortfolioProtected ==
    [][op'.name = "DeletePortfolio" =>
         /\ (op'.result = "rejected") <=> (InvestmentsOfPortfolio(op'.id) # {})
         /\ (op'.result = "rejected") => (op'.id \in portfolios')
         /\ (op'.result = "ok") => (op'.id \notin portfolios')
         /\ UNCHANGED <<investments, transactions>>]_vars

\* delete(portfolio) was rejected while the portfolio's Investment had a
\* Transaction and another Portfolio had no Investment
C4_Witness ==
    /\ op.name = "DeletePortfolio"
    /\ op.result = "rejected"
    /\ \E i \in InvestmentsOfPortfolio(op.id) : TransactionsOfInvestment(i) # {}
    /\ \E p \in portfolios : InvestmentsOfPortfolio(p) = {}

\* C5: delete(share price) is rejected while a Transaction references it,
\* and after every operation each Transaction references an existing
\* SharePrice.
C5_SharePriceProtected ==
    [][/\ (op'.name = "DeleteSharePrice" /\ TransactionsOfSharePrice(op'.id) # {})
           => (op'.result = "rejected" /\ op'.id \in DOMAIN sharePrices')
       /\ \A t \in DOMAIN transactions' :
              transactions'[t].share_price \in DOMAIN sharePrices']_vars

\* delete(share price) was rejected because a Transaction references it
C5_Witness ==
    /\ op.name = "DeleteSharePrice"
    /\ op.result = "rejected"
    /\ TransactionsOfSharePrice(op.id) # {}

\* C6: Investment.create fails and adds no row whenever the portfolio or the
\* asset it names does not exist, also when the portfolio is left out and
\* the field's default is used.
C6_CreateInvestmentNeedsReferences ==
    [][(/\ op'.name = "CreateInvestment"
        /\ (op'.portfolio \notin portfolios \/ op'.asset \notin DOMAIN assets))
       => (op'.result = "rejected" /\ investments' = investments)]_vars

\* a create without a portfolio, for an existing asset, was rejected
C6_Witness ==
    /\ op.name = "CreateInvestment"
    /\ op.omitted
    /\ op.portfolio = Investment_portfolio_default
    /\ op.asset \in DOMAIN assets
    /\ op.result = "rejected"

EntriesKept ==
    \A s \in DOMAIN sharePrices :
        s \in DOMAIN sharePrices' /\ sharePrices'[s] = sharePrices[s]

C9_NoDanglingReference ==
    /\ \A i \in DOMAIN investments :
           /\ investments[i].portfolio \in portfolios
           /\ investments[i].asset \in DOMAIN assets
    /\ \A s \in DOMAIN sharePrices : sharePrices[s].asset \in DOMAIN assets
    /\ \A t \in DOMAIN transactions :
           /\ transactions[t].investment \in DOMAIN investments
           /\ transactions[t].share_price \in DOMAIN sharePrices

\* an Asset with SharePrice rows was deleted while Investments and
\* Transactions exist
C9_Witness ==
    /\ op.name = "DeleteAsset"
    /\ op.result = "ok"
    /\ op.deleted.s >= 1
    /\ investments # << >>
    /\ transactions # << >>

\* C10: a successful delete(asset) removes that Asset and exactly the
\* SharePrice rows of that asset; the SharePrice rows of other assets and all
\* Portfolio, Investment and Transaction rows stay as they were.
C10_DeleteAssetCascade ==
    [][(op'.name = "DeleteAsset" /\ op'.result = "ok") =>
         /\ assets' = Remove(assets, {op'.id})
         /\ sharePrices' = Remove(sharePrices, SharePricesOfAsset(op'.id))
         /\ \A s \in DOMAIN sharePrices' : sharePrices'[s].asset # op'.id
         /\ UNCHANGED <<portfolios, investments, transactions>>]_vars

\* an Asset was deleted with a SharePrice of its own while a SharePrice of
\* another Asset stayed
C10_Witness ==
    /\ op.name = "DeleteAsset"
    /\ op.result = "ok"
    /\ op.deleted.s >= 1
    /\ sharePrices # << >>

====
